---- MODULE Spec2Model ----
(***************************************************************************)
(* Conversation lifecycle and escalation state machine of the Replify      *)
(* backend: the WhatsApp webhook handler (src/main.py), the conversation   *)
(* service (src/services/conversation_service.py) and reply resolution     *)
(* (src/ai_engine.py), over a transactional relational store.              *)
(*                                                                         *)
(* Text is a sequence of one-character strings, so that lower(), strip()   *)
(* and the substring test `in` are computed as Python computes them.  The  *)
(* two non-ASCII characters of HANDOFF_MESSAGE are written by name.        *)
(***************************************************************************)
EXTENDS Integers, Sequences, FiniteSets, TLC

\* ------------------------------------------------------------------------
\* Bounds of the model
\* ------------------------------------------------------------------------
MaxClock == 3

Tasks == {1, 2}
Businesses == {1, 2}

\* Business.ai_enabled (models.py line 29): no operation of the service changes
\* it; business 1 has the default, business 2 has automation switched off.
ai_enabled == [b \in Businesses |-> b = 1]

\* The (business, customer) pairs inbound messages come from: two customers
\* of one business, and one customer number known to two businesses.
Pairs == {<<1, 1>>, <<1, 2>>, <<2, 1>>}

\* ------------------------------------------------------------------------
\* Text primitives (Python str.lower, str.strip, `sub in s`)
\* ------------------------------------------------------------------------
UpperLetters ==
    <<"A", "B", "C", "D", "E", "F", "G", "H", "I", "J", "K", "L", "M",
      "N", "O", "P", "Q", "R", "S", "T", "U", "V", "W", "X", "Y", "Z">>

LowerLetters ==
    <<"a", "b", "c", "d", "e", "f", "g", "h", "i", "j", "k", "l", "m",
      "n", "o", "p", "q", "r", "s", "t", "u", "v", "w", "x", "y", "z">>

Whitespace == {" ", "\t", "\n", "\r"}

LowerChar(ch) ==
    IF \E i \in 1..Len(UpperLetters) : UpperLetters[i] = ch
    THEN LowerLetters[CHOOSE i \in 1..Len(UpperLetters) : UpperLetters[i] = ch]
    ELSE ch

Lower(s) == [i \in 1..Len(s) |-> LowerChar(s[i])]

Strip(s) ==
    LET keep == {i \in 1..Len(s) : s[i] \notin Whitespace}
        lo == CHOOSE i \in keep : \A j \in keep : i <= j
        hi == CHOOSE i \in keep : \A j \in keep : i >= j
    IN  IF keep = {} THEN <<>> ELSE SubSeq(s, lo, hi)

Contains(s, sub) ==
    \E i \in 0..(Len(s) - Len(sub)) : SubSeq(s, i + 1, i + Len(sub)) = sub

\* ------------------------------------------------------------------------
\* src/ai_engine.py: triggers, fixed replies, detector
\* ------------------------------------------------------------------------
ESCALATION_TRIGGERS ==
    <<<<"s", "p", "e", "a", "k", " ", "t", "o", " ", "a", " ", "p", "e", "r", "s", "o", "n">>,
      <<"s", "p", "e", "a", "k", " ", "t", "o", " ", "s", "o", "m", "e", "o", "n", "e">>,
      <<"h", "u", "m", "a", "n">>,
      <<"a", "g", "e", "n", "t">>,
      <<"m", "a", "n", "a", "g", "e", "r">>,
      <<"c", "o", "m", "p", "l", "a", "i", "n", "t">>,
      <<"r", "e", "f", "u", "n", "d">>,
      <<"n", "o", "t", " ", "w", "o", "r", "k", "i", "n", "g">>,
      <<"p", "r", "o", "b", "l", "e", "m">>,
      <<"u", "r", "g", "e", "n", "t">>,
      <<"a", "s", "a", "p">>,
      <<"e", "m", "e", "r", "g", "e", "n", "c", "y">>>>

HANDOFF_MESSAGE ==
    <<"I", " ", "u", "n", "d", "e", "r", "s", "t", "a", "n", "d", " ", "EM_DASH", " ",
      "l", "e", "t", " ", "m", "e", " ", "c", "o", "n", "n", "e", "c", "t", " ", "y", "o",
      "u", " ", "w", "i", "t", "h", " ", "o", "n", "e", " ", "o", "f", " ", "o", "u", "r",
      " ", "t", "e", "a", "m", " ", "m", "e", "m", "b", "e", "r", "s", " ", "w", "h", "o",
      " ", "w", "i", "l", "l", " ", "b", "e", " ", "a", "b", "l", "e", " ", "t", "o", " ",
      "a", "s", "s", "i", "s", "t", " ", "y", "o", "u", " ", "f", "u", "r", "t", "h", "e",
      "r", ".", " ", "P", "l", "e", "a", "s", "e", " ", "h", "o", "l", "d", " ", "o", "n",
      " ", "w", "h", "i", "l", "e", " ", "w", "e", " ", "g", "e", "t", " ", "s", "o", "m",
      "e", "o", "n", "e", " ", "f", "o", "r", " ", "y", "o", "u", " ", "FOLDED_HANDS">>

APOLOGY_MESSAGE ==
    <<"S", "o", "r", "r", "y", ",", " ", "I", "'", "m", " ", "h", "a", "v", "i", "n", "g",
      " ", "a", " ", "l", "i", "t", "t", "l", "e", " ", "t", "r", "o", "u", "b", "l", "e",
      " ", "r", "i", "g", "h", "t", " ", "n", "o", "w", ".", " ", "P", "l", "e", "a", "s",
      "e", " ", "t", "r", "y", " ", "a", "g", "a", "i", "n", " ", "i", "n", " ", "a", " ",
      "m", "o", "m", "e", "n", "t", " ", "o", "r", " ", "t", "y", "p", "e", " ", "'", "a",
      "g", "e", "n", "t", "'", " ", "t", "o", " ", "s", "p", "e", "a", "k", " ", "w", "i",
      "t", "h", " ", "s", "o", "m", "e", "o", "n", "e", ".">>

\* src/main.py lines 41-44.
FALLBACK_MEDIA_MESSAGE ==
    <<"H", "i", "!", " ", "I", " ", "c", "a", "n", " ", "o", "n", "l", "y", " ", "p",
      "r", "o", "c", "e", "s", "s", " ", "t", "e", "x", "t", " ", "m", "e", "s", "s",
      "a", "g", "e", "s", " ", "r", "i", "g", "h", "t", " ", "n", "o", "w", ".", " ",
      "P", "l", "e", "a", "s", "e", " ", "d", "e", "s", "c", "r", "i", "b", "e", " ",
      "w", "h", "a", "t", " ", "y", "o", "u", " ", "n", "e", "e", "d", " ", "a", "n",
      "d", " ", "I", "'", "l", "l", " ", "b", "e", " ", "h", "a", "p", "p", "y", " ",
      "t", "o", " ", "h", "e", "l", "p", " ", "SMILING_FACE">>

SENTINEL ==
    <<"N", "E", "E", "D", "S", "_", "H", "U", "M", "A", "N">>


\* needs_human_escalation without lower().
needs_human_escalation_case_sensitive(message) ==
    \E k \in 1..Len(ESCALATION_TRIGGERS) : Contains(message, ESCALATION_TRIGGERS[k])

needs_human_escalation(message) ==
    LET lowered == Lower(message)
    IN  \E k \in 1..Len(ESCALATION_TRIGGERS) : Contains(lowered, ESCALATION_TRIGGERS[k])

\* generate_reply comparing the reply with the sentinel instead of searching it.
reply_from_outcome_exact_sentinel(outcome) ==
    IF outcome.kind = "text"
    THEN IF Strip(outcome.text) = SENTINEL
         THEN [reply_text |-> HANDOFF_MESSAGE, needs_human |-> TRUE]
         ELSE [reply_text |-> Strip(outcome.text), needs_human |-> FALSE]
    ELSE [reply_text |-> APOLOGY_MESSAGE, needs_human |-> FALSE]

\* generate_reply handing off when the collaborator call fails.
reply_from_outcome_failure_escalates(outcome) ==
    IF outcome.kind = "text"
    THEN IF Contains(Strip(outcome.text), SENTINEL)
         THEN [reply_text |-> HANDOFF_MESSAGE, needs_human |-> TRUE]
         ELSE [reply_text |-> Strip(outcome.text), needs_human |-> FALSE]
    ELSE [reply_text |-> HANDOFF_MESSAGE, needs_human |-> TRUE]

\* What generate_reply returns once the collaborator call has ended with
\* `outcome`: a first content block carrying text, a response with no content
\* block (IndexError), or a raised timeout / provider error.
reply_from_outcome(outcome) ==
    IF outcome.kind = "text"
    THEN LET reply_text == Strip(outcome.text)
         IN  IF Contains(reply_text, SENTINEL)
             THEN [reply_text |-> HANDOFF_MESSAGE, needs_human |-> TRUE]
             ELSE [reply_text |-> reply_text, needs_human |-> FALSE]
    ELSE [reply_text |-> APOLOGY_MESSAGE, needs_human |-> FALSE]

\* ------------------------------------------------------------------------
\* Inputs of the model
\* ------------------------------------------------------------------------
TextHi ==
    <<"h", "i">>

TextRefund ==
    <<"I", " ", "w", "a", "n", "t", " ", "a", " ", "R", "E", "F", "U", "N", "D">>

TextManager ==
    <<"I", " ", "w", "a", "n", "t", " ", "t", "o", " ", "s", "p", "e", "a", "k", " ", "t",
      "o", " ", "a", " ", "m", "a", "n", "a", "g", "e", "r">>

TextHumane ==
    <<"i", "s", " ", "i", "t", " ", "h", "u", "m", "a", "n", "e">>

TextAsapPadded ==
    <<" ", " ", "A", "S", "A", "P", " ">>

TextSentinel ==
    <<"N", "E", "E", "D", "S", "_", "H", "U", "M", "A", "N">>

RespAnswer ==
    <<" ", " ", "W", "e", " ", "o", "p", "e", "n", " ", "a", "t", " ", "9", "a", "m", ".",
      "\n">>

RespSentinelPadded ==
    <<" ", "N", "E", "E", "D", "S", "_", "H", "U", "M", "A", "N", "\n">>

RespSentinelInside ==
    <<"S", "o", "r", "r", "y", ":", " ", "N", "E", "E", "D", "S", "_", "H", "U", "M", "A",
      "N", ".">>

RespLowerSentinel ==
    <<"n", "e", "e", "d", "s", "_", "h", "u", "m", "a", "n">>

RespBlank ==
    <<" ", "\n">>

AgentText ==
    <<"H", "e", "l", "l", "o", ",", " ", "A", "n", "a", " ", "h", "e", "r", "e">>

TextOutcome(s) == [kind |-> "text", text |-> s]

RaisedOutcome == [kind |-> "raised"]

NoContentOutcome == [kind |-> "no_content"]

InboundBodies == {TextHi, TextRefund}

\* The message types receive_webhook answers with the notice (line 249).
NoticeTypes == {"image", "audio", "video", "document", "sticker"}

\* Types of inbound messages other than text that the channel delivers.
NonTextTypes == NoticeTypes \cup {"location", "reaction"}

Outcomes == {TextOutcome(RespAnswer)}

\* ------------------------------------------------------------------------
\* State
\* ------------------------------------------------------------------------
VARIABLES
    convs,       \* table conversations: row id = index
    msgs,        \* table messages (committed rows, in commit order)
    clock,       \* the next value datetime.now() returns
    task,        \* receive_webhook handlers: position, locals, session state
    api_calls,   \* requests the text-generation collaborator has received
    delivered,   \* texts handed to the outbound channel (send_message)
    calls        \* the last two service calls of a sequential caller, with results

vars == <<convs, msgs, clock, task, api_calls, delivered, calls>>

NoResponse == [kind |-> "none"]

NoCall == [op |-> "none"]

IdleTask ==
    [pc |-> "idle", business |-> 0, from_number |-> 0, msg_id |-> 0,
     customer_text |-> <<>>, conversation |-> 0, ai_handling |-> FALSE,
     loaded |-> FALSE, pending |-> <<>>, response |-> NoResponse,
     reply_text |-> <<>>, human_needed |-> FALSE, in_tx |-> FALSE,
     messages |-> 0, generations |-> 0, msg_type |-> "none"]

\* ------------------------------------------------------------------------
\* Rows and statements of the conversation service
\* ------------------------------------------------------------------------
NewConversation(business_id, customer_number, now) ==
    [business_id |-> business_id, customer_number |-> customer_number,
     status |-> "open", ai_handling |-> TRUE,
     last_message_at |-> now, created_at |-> now]

NewMessage(conversation_id, role, content, whatsapp_message_id, needs_human, now) ==
    [conversation_id |-> conversation_id, role |-> role, content |-> content,
     whatsapp_message_id |-> whatsapp_message_id, needs_human |-> needs_human,
     created_at |-> now]

\* conv_updates writing ai_handling on every save.
conv_updates_writes_ai_handling(needs_human, now) ==
    IF needs_human
    THEN [last_message_at |-> now, status |-> "needs_human", ai_handling |-> FALSE]
    ELSE [last_message_at |-> now, ai_handling |-> TRUE]

\* conv_updates putting the conversation back to open on an unflagged save.
conv_updates_reopens(needs_human, now) ==
    IF needs_human
    THEN [last_message_at |-> now, status |-> "needs_human", ai_handling |-> FALSE]
    ELSE [last_message_at |-> now, status |-> "open"]

conv_updates_timestamp_only(needs_human, now) == [last_message_at |-> now]

conv_updates(needs_human, now) ==
    IF needs_human
    THEN [last_message_at |-> now, status |-> "needs_human", ai_handling |-> FALSE]
    ELSE [last_message_at |-> now]

flag_values_status_only == [status |-> "needs_human"]

flag_values == [status |-> "needs_human", ai_handling |-> FALSE]

resolve_values == [status |-> "resolved", ai_handling |-> FALSE]

\* SET ai_handling = NOT ai_handling in place of the constant.
ApplyValues_inverts_ai_handling(row, values) ==
    [f \in DOMAIN row |->
        IF f \notin DOMAIN values THEN row[f]
        ELSE IF f = "ai_handling" THEN ~row[f] ELSE values[f]]

ApplyValues(row, values) ==
    [f \in DOMAIN row |-> IF f \in DOMAIN values THEN values[f] ELSE row[f]]

\* An UPDATE whose WHERE clause matches no row.
UpdateConversation_no_row(table, conversation_id, values) == table

\* UPDATE conversations SET values WHERE id = conversation_id
UpdateConversation(table, conversation_id, values) ==
    [i \in 1..Len(table) |->
        IF i = conversation_id THEN ApplyValues(table[i], values) ELSE table[i]]

\* The query without its condition on status.
ActiveConversations_any_status(table, business_id, customer_number) ==
    {i \in 1..Len(table) :
        /\ table[i].business_id = business_id
        /\ table[i].customer_number = customer_number}

\* The query matching escalated conversations only.
ActiveConversations_needs_human_only(table, business_id, customer_number) ==
    {i \in 1..Len(table) :
        /\ table[i].business_id = business_id
        /\ table[i].customer_number = customer_number
        /\ table[i].status = "needs_human"}

\* The rows the query of get_or_create_conversation matches.
ActiveConversations(table, business_id, customer_number) ==
    {i \in 1..Len(table) :
        /\ table[i].business_id = business_id
        /\ table[i].customer_number = customer_number
        /\ table[i].status # "resolved"}

\* The query ordered by created_at ascending.
SelectConversation_oldest(table, business_id, customer_number) ==
    LET rows == ActiveConversations(table, business_id, customer_number)
    IN  IF rows = {} THEN 0
        ELSE CHOOSE i \in rows :
                \A j \in rows : table[i].created_at <= table[j].created_at

\* ORDER BY created_at DESC LIMIT 1 over those rows (0: no row).
SelectConversation(table, business_id, customer_number) ==
    LET rows == ActiveConversations(table, business_id, customer_number)
    IN  IF rows = {} THEN 0
        ELSE CHOOSE i \in rows :
                \A j \in rows : table[j].created_at <= table[i].created_at

\* The constraints of a messages table without the unique index.
IntegrityError_foreign_key_only(m) == m.conversation_id \notin 1..Len(convs)

\* The unique index on messages.whatsapp_message_id and the foreign key on
\* messages.conversation_id, checked against the committed rows.
IntegrityError(m) ==
    \/ m.conversation_id \notin 1..Len(convs)
    \/ /\ m.whatsapp_message_id # 0
       /\ \E i \in 1..Len(msgs) : msgs[i].whatsapp_message_id = m.whatsapp_message_id

\* A unique index that lets an insert proceed next to an uncommitted insert
\* of the same key.
KeyPending_never_waits(t, m) == FALSE

\* An uncommitted insert of the same key by another session: the insert waits.
KeyPending(t, m) ==
    /\ m.whatsapp_message_id # 0
    /\ \E u \in Tasks \ {t} : \E i \in 1..Len(task[u].pending) :
          task[u].pending[i].whatsapp_message_id = m.whatsapp_message_id

\* A commit that also marks the earlier messages of the conversation when the
\* message it inserts is flagged.
CommittedMessages_flags_earlier(ms, pending) ==
    IF pending = <<>> THEN ms
    ELSE [i \in 1..Len(ms) |->
            IF ms[i].conversation_id = pending[1].conversation_id
               /\ pending[1].needs_human
            THEN [ms[i] EXCEPT !.needs_human = TRUE] ELSE ms[i]] \o pending

\* save_message's transaction at commit: the flushed INSERT and the UPDATE of
\* the parent row become visible together.
CommittedMessages(ms, pending) == ms \o pending

CommittedConversations_insert_only(cs, pending) == cs

CommittedConversations(cs, pending) ==
    IF pending = <<>> THEN cs
    ELSE UpdateConversation(cs, pending[1].conversation_id,
                            conv_updates(pending[1].needs_human, pending[1].created_at))

\* ------------------------------------------------------------------------
\* The history helper (src/services/conversation_service.py) and the payload
\* of the collaborator call (src/ai_engine.py)
\* ------------------------------------------------------------------------
\* sorted(..., key=lambda m: m.created_at): Python's sort is stable, so a
\* message goes behind every message whose key is not greater than its own.
InsertByCreatedAt(sorted, m) ==
    LET k == Cardinality({i \in 1..Len(sorted) : sorted[i].created_at <= m.created_at})
    IN  SubSeq(sorted, 1, k) \o <<m>> \o SubSeq(sorted, k + 1, Len(sorted))

RECURSIVE SortedByCreatedAt(_)
SortedByCreatedAt(messages) ==
    IF messages = <<>> THEN <<>>
    ELSE InsertByCreatedAt(SortedByCreatedAt(SubSeq(messages, 1, Len(messages) - 1)),
                           messages[Len(messages)])

\* The test of line 120.
InHistoryRoles(m) == m.role \in {"user", "assistant"}

\* The helper with the sort left out.
get_conversation_history_for_claude_unsorted(messages) ==
    LET kept == SelectSeq(messages, InHistoryRoles)
    IN  [i \in 1..Len(kept) |-> [role |-> kept[i].role, content |-> kept[i].content]]

\* get_conversation_history_for_claude lines 118-122, on the collection
\* conversation.messages.
get_conversation_history_for_claude(messages) ==
    LET kept == SelectSeq(SortedByCreatedAt(messages), InHistoryRoles)
    IN  [i \in 1..Len(kept) |-> [role |-> kept[i].role, content |-> kept[i].content]]

\* The collection of conversation c, in the order the store holds it.
LoadedMessages(c) == SelectSeq(msgs, LAMBDA m : m.conversation_id = c)

\* conversation.messages read from the store at the time of its use.
ConversationMessages_reloaded(t) == LoadedMessages(task[t].conversation)

\* conversation.messages of request t: the collection loaded when the request
\* fetched its conversation.  Messages are only ever appended, so the task
\* keeps the number of messages loaded and the collection is that many of the
\* first messages the conversation holds now.
ConversationMessages(t) ==
    SubSeq(LoadedMessages(task[t].conversation), 1, task[t].messages)

\* generate_reply lines 135-144: the turns of the history whose role is user
\* or assistant, then the current customer turn.
api_messages(history, customer_message) ==
    SelectSeq(history, InHistoryRoles)
        \o <<[role |-> "user", content |-> customer_message]>>

\* main.py line 221 and generate_reply lines 135-144 in request t: the history
\* of the loaded collection, then the customer turn.  This is the `messages`
\* argument of the collaborator call.
PayloadOf(t) ==
    api_messages(get_conversation_history_for_claude(ConversationMessages(t)),
                 task[t].customer_text)

\* ------------------------------------------------------------------------
\* receive_webhook (src/main.py), one action per stretch between awaits
\* ------------------------------------------------------------------------
\* The webhook deliveries that can arrive: a message not seen before, under
\* the next unused channel message id, or the channel delivering again a
\* message that is stored or being handled.
NextMsgId ==
    LET used == {msgs[i].whatsapp_message_id : i \in 1..Len(msgs)}
                  \cup {task[u].msg_id : u \in Tasks}
    IN  1 + (CHOOSE n \in used \cup {0} : \A k \in used : k <= n)

Deliveries(bodies) ==
    {[business |-> p[1], from_number |-> p[2], msg_id |-> NextMsgId, body |-> body] :
        p \in Pairs, body \in bodies}
    \cup {[business |-> convs[msgs[i].conversation_id].business_id,
           from_number |-> convs[msgs[i].conversation_id].customer_number,
           msg_id |-> msgs[i].whatsapp_message_id, body |-> msgs[i].content] :
             i \in {j \in 1..Len(msgs) : msgs[j].whatsapp_message_id # 0}}
    \cup {[business |-> task[u].business, from_number |-> task[u].from_number,
           msg_id |-> task[u].msg_id, body |-> task[u].customer_text] :
             u \in {v \in Tasks : task[v].pc # "idle"}}

\* Lines 175-210 and get_or_create_conversation lines 26-37: parse the body,
\* find the business, strip the text, and run the query for the active
\* conversation, whose messages are eagerly loaded.  The session begins its
\* transaction with the first SELECT (line 196) and nothing here ends it.
Receive(t, bodies) ==
    /\ task[t].pc = "idle"
    /\ \A u \in Tasks : u < t => task[u].pc # "idle"
    /\ clock <= MaxClock
    /\ \E d \in Deliveries(bodies) :
          /\ Strip(d.body) # <<>>
          /\ LET c == SelectConversation(convs, d.business, d.from_number)
                 started == [IdleTask EXCEPT !.business = d.business,
                                             !.from_number = d.from_number,
                                             !.msg_id = d.msg_id,
                                             !.customer_text = Strip(d.body),
                                             !.msg_type = "text",
                                             !.in_tx = TRUE]
             IN  task' = [task EXCEPT ![t] =
                    IF c # 0
                    THEN [started EXCEPT !.pc = "save_user", !.conversation = c,
                                         !.ai_handling = convs[c].ai_handling,
                                         !.loaded = TRUE,
                                         !.messages = Len(LoadedMessages(c))]
                    ELSE [started EXCEPT !.pc = "create_conversation"]]
    /\ UNCHANGED <<convs, msgs, clock, api_calls, delivered, calls>>

\* get_or_create_conversation lines 39-50: insert, commit, refresh.  The new
\* object's messages collection is not loaded by any of them.  The SELECT of
\* the refresh begins the session's next transaction.
CreateConversation(t) ==
    /\ task[t].pc = "create_conversation"
    /\ clock <= MaxClock
    /\ convs' = Append(convs, NewConversation(task[t].business, task[t].from_number, clock))
    /\ clock' = clock + 1
    /\ task' = [task EXCEPT ![t] =
            [@ EXCEPT !.pc = "save_user", !.conversation = Len(convs) + 1,
                      !.ai_handling = convs'[Len(convs) + 1].ai_handling,
                      !.loaded = FALSE, !.in_tx = TRUE]]
    /\ UNCHANGED <<msgs, api_calls, delivered, calls>>

\* The message the handler is about to save: the inbound text (lines 212-218)
\* or the reply (lines 230-236).
MessageToSave(t, now) ==
    IF task[t].pc = "save_user"
    THEN NewMessage(task[t].conversation, "user", task[t].customer_text,
                    task[t].msg_id, FALSE, now)
    ELSE NewMessage(task[t].conversation, "assistant", task[t].reply_text,
                    0, task[t].human_needed, now)

\* save_message lines 76-87 and the flush of the INSERT that line 95 triggers.
\* A violated constraint raises; the handler's except clause ends the request
\* and the session is closed without a commit.
SaveBegin(t) ==
    /\ task[t].pc \in {"save_user", "save_reply"}
    /\ clock <= MaxClock
    /\ LET m == MessageToSave(t, clock)
       IN  /\ ~KeyPending(t, m)
           /\ task' = [task EXCEPT ![t] =
                 IF IntegrityError(m) THEN IdleTask
                 ELSE [@ EXCEPT !.pending = <<m>>, !.in_tx = TRUE,
                                !.pc = IF task[t].pc = "save_user"
                                       THEN "commit_user" ELSE "commit_reply"]]
    /\ clock' = clock + 1
    /\ UNCHANGED <<convs, msgs, api_calls, delivered, calls>>

\* A variant of SaveCommit in which the reply goes on to its delivery without
\* having been stored.
SaveCommit_reply_unsaved(t) ==
    /\ task[t].pc \in {"commit_user", "commit_reply"}
    /\ msgs' = IF task[t].pc = "commit_user"
               THEN CommittedMessages(msgs, task[t].pending) ELSE msgs
    /\ convs' = CommittedConversations(convs, task[t].pending)
    /\ task' = [task EXCEPT ![t] =
            [@ EXCEPT !.pending = <<>>, !.in_tx = TRUE,
                      !.pc = IF task[t].pc = "commit_user" THEN "reply"
                             ELSE IF task[t].human_needed THEN "flag" ELSE "send"]]
    /\ UNCHANGED <<clock, api_calls, delivered, calls>>

\* save_message lines 89-103: the UPDATE of the parent row, the commit, and
\* the refresh of the message, whose SELECT begins the next transaction.
SaveCommit(t) ==
    /\ task[t].pc \in {"commit_user", "commit_reply"}
    /\ msgs' = CommittedMessages(msgs, task[t].pending)
    /\ convs' = CommittedConversations(convs, task[t].pending)
    /\ task' = [task EXCEPT ![t] =
            [@ EXCEPT !.pending = <<>>, !.in_tx = TRUE,
                      !.pc = IF task[t].pc = "commit_user" THEN "reply"
                             ELSE IF task[t].human_needed THEN "flag" ELSE "send"]]
    /\ UNCHANGED <<clock, api_calls, delivered, calls>>

\* The store fails the statement or the commit: the exception reaches line 257,
\* the session closes and its transaction is rolled back.
StoreFailure(t) ==
    /\ task[t].pc \in {"commit_user", "commit_reply"}
    /\ task' = [task EXCEPT ![t] = IdleTask]
    /\ UNCHANGED <<convs, msgs, clock, api_calls, delivered, calls>>

\* Line 220 closed: the handler returns after saving the inbound message.
SkipReply(t) ==
    /\ task[t].pc = "reply"
    /\ ~(ai_enabled[task[t].business] /\ task[t].ai_handling)
    /\ task' = [task EXCEPT ![t] = IdleTask]
    /\ UNCHANGED <<convs, msgs, clock, api_calls, delivered, calls>>

\* Line 221 on a conversation object whose messages were never loaded: the
\* attribute access starts a lazy load outside the async context, which
\* raises; the except clause at line 257 ends the request.
HistoryUnloaded(t) ==
    /\ task[t].pc = "reply"
    /\ ai_enabled[task[t].business] /\ task[t].ai_handling
    /\ ~task[t].loaded
    /\ task' = [task EXCEPT ![t] = IdleTask]
    /\ UNCHANGED <<convs, msgs, clock, api_calls, delivered, calls>>

\* A variant of StartReply whose test at line 220 looks at the business only.
StartReply_ignores_ai_handling(t) ==
    /\ task[t].pc = "reply"
    /\ ai_enabled[task[t].business]
    /\ task' = [task EXCEPT ![t] =
            IF needs_human_escalation(task[t].customer_text)
            THEN [@ EXCEPT !.pc = "save_reply", !.reply_text = HANDOFF_MESSAGE,
                           !.human_needed = TRUE]
            ELSE [@ EXCEPT !.pc = "generate"]]
    /\ UNCHANGED <<convs, msgs, clock, api_calls, delivered, calls>>

\* Lines 220-228 and generate_reply lines 130-146: the keyword check, which
\* returns the hand-off at once or goes on to the collaborator.
StartReply(t) ==
    /\ task[t].pc = "reply"
    /\ ai_enabled[task[t].business] /\ task[t].ai_handling
    /\ task' = [task EXCEPT ![t] =
            IF needs_human_escalation(task[t].customer_text)
            THEN [@ EXCEPT !.pc = "save_reply", !.reply_text = HANDOFF_MESSAGE,
                           !.human_needed = TRUE]
            ELSE [@ EXCEPT !.pc = "generate"]]
    /\ UNCHANGED <<convs, msgs, clock, api_calls, delivered, calls>>

\* A variant of Generate that calls the collaborator a second time when the
\* first call fails.
Generate_retries_on_failure(t, outcomes) ==
    /\ task[t].pc = "generate"
    /\ api_calls' = api_calls \cup
            {[conversation |-> task[t].conversation,
              text |-> PayloadOf(t)[Len(PayloadOf(t))].content]}
    /\ \E outcome \in outcomes :
          LET r == reply_from_outcome(outcome)
          IN  task' = [task EXCEPT ![t] =
                    IF outcome = RaisedOutcome /\ task[t].generations = 0
                    THEN [@ EXCEPT !.generations = @ + 1]
                    ELSE [@ EXCEPT !.pc = "save_reply", !.response = outcome,
                                   !.reply_text = r.reply_text,
                                   !.human_needed = r.needs_human,
                                   !.generations = @ + 1]]
    /\ UNCHANGED <<convs, msgs, clock, delivered, calls>>

\* Line 221 and generate_reply lines 135-171: the one call to the
\* collaborator, with PayloadOf(t) as its messages, and its result.  Of the
\* payload the log of calls keeps the conversation and the text of the last
\* turn.
Generate(t, outcomes) ==
    /\ task[t].pc = "generate"
    /\ api_calls' = api_calls \cup
            {[conversation |-> task[t].conversation,
              text |-> PayloadOf(t)[Len(PayloadOf(t))].content]}
    /\ \E outcome \in outcomes :
          LET r == reply_from_outcome(outcome)
          IN  task' = [task EXCEPT ![t] =
                    [@ EXCEPT !.pc = "save_reply", !.response = outcome,
                              !.reply_text = r.reply_text,
                              !.human_needed = r.needs_human,
                              !.generations = @ + 1]]
    /\ UNCHANGED <<convs, msgs, clock, delivered, calls>>

\* flag_for_human (conversation_service.py lines 129-136), called at line 239:
\* the UPDATE and the commit, which ends the session's transaction.
FlagForHuman(t) ==
    /\ task[t].pc = "flag"
    /\ convs' = UpdateConversation(convs, task[t].conversation, flag_values)
    /\ task' = [task EXCEPT ![t] = [@ EXCEPT !.pc = "send", !.in_tx = FALSE]]
    /\ UNCHANGED <<msgs, clock, api_calls, delivered, calls>>

\* Lines 242-247: the reply is handed to the outbound channel.
SendReply(t) ==
    /\ task[t].pc = "send"
    /\ delivered' = delivered \cup
            {[to |-> task[t].from_number, text |-> task[t].reply_text]}
    /\ task' = [task EXCEPT ![t] = IdleTask]
    /\ UNCHANGED <<convs, msgs, clock, api_calls, calls>>

\* send_message raises (the channel cannot be reached within the timeout):
\* the exception reaches line 257 and the request ends, nothing delivered.
SendFailure(t) ==
    /\ task[t].pc = "send"
    /\ task' = [task EXCEPT ![t] = IdleTask]
    /\ UNCHANGED <<convs, msgs, clock, api_calls, delivered, calls>>

\* A variant of Cancel in which the rollback also removes the inbound message
\* of the request.
Cancel_removes_inbound(t) ==
    /\ task[t].pc # "idle"
    /\ task' = [task EXCEPT ![t] = IdleTask]
    /\ msgs' = SelectSeq(msgs, LAMBDA m : m.whatsapp_message_id # task[t].msg_id)
    /\ UNCHANGED <<convs, clock, api_calls, delivered, calls>>

\* The request is cancelled at one of its awaits: the handler is left through
\* `async with` (line 195), which closes the session and rolls back whatever
\* its open transaction holds; what was committed stays.
Cancel(t) ==
    /\ task[t].pc # "idle"
    /\ task' = [task EXCEPT ![t] = IdleTask]
    /\ UNCHANGED <<convs, msgs, clock, api_calls, delivered, calls>>

\* Lines 175-200 for a message whose type is not text: parse the body, find
\* the business, mark the message as read.  The handler stands before the
\* tests of msg_type at lines 202 and 249.
ReceiveNonText(t, types) ==
    /\ task[t].pc = "idle"
    /\ \A u \in Tasks : u < t => task[u].pc # "idle"
    /\ \E p \in Pairs, type \in types :
          task' = [task EXCEPT ![t] =
                      [IdleTask EXCEPT !.pc = "dispatch", !.business = p[1],
                                       !.from_number = p[2], !.msg_id = NextMsgId,
                                       !.msg_type = type, !.in_tx = TRUE]]
    /\ UNCHANGED <<convs, msgs, clock, api_calls, delivered, calls>>

\* Lines 249-255: the notice is handed to the outbound channel.
SendNotice(t) ==
    /\ task[t].pc = "dispatch"
    /\ task[t].msg_type \in NoticeTypes
    /\ delivered' = delivered \cup
            {[to |-> task[t].from_number, text |-> FALLBACK_MEDIA_MESSAGE]}
    /\ task' = [task EXCEPT ![t] = IdleTask]
    /\ UNCHANGED <<convs, msgs, clock, api_calls, calls>>

\* Neither line 202 nor line 249 matches the type: the handler leaves the
\* session and returns 200 (line 260).
IgnoreMessage(t) ==
    /\ task[t].pc = "dispatch"
    /\ task[t].msg_type \notin NoticeTypes \cup {"text"}
    /\ task' = [task EXCEPT ![t] = IdleTask]
    /\ UNCHANGED <<convs, msgs, clock, api_calls, delivered, calls>>

\* ------------------------------------------------------------------------
\* Dashboard operations (src/main.py)
\* ------------------------------------------------------------------------
\* takeover_conversation lines 360-372 (an unknown id answers 404).
Takeover(c) ==
    /\ c \in 1..Len(convs)
    /\ convs' = UpdateConversation(convs, c, flag_values)
    /\ UNCHANGED <<msgs, clock, task, api_calls, delivered, calls>>

\* resolve_conversation lines 375-392.
ResolveConversation(c) ==
    /\ c \in 1..Len(convs)
    /\ convs' = UpdateConversation(convs, c, resolve_values)
    /\ UNCHANGED <<msgs, clock, task, api_calls, delivered, calls>>

\* agent_reply lines 328-357: save_message with role human_agent, then send.
AgentReply(c, body) ==
    /\ c \in 1..Len(convs)
    /\ clock <= MaxClock
    /\ LET m == NewMessage(c, "human_agent", body, 0, FALSE, clock)
       IN  /\ msgs' = CommittedMessages(msgs, <<m>>)
           /\ convs' = CommittedConversations(convs, <<m>>)
    /\ clock' = clock + 1
    /\ delivered' = delivered \cup {[to |-> convs[c].customer_number, text |-> body]}
    /\ UNCHANGED <<task, api_calls, calls>>

\* ------------------------------------------------------------------------
\* Specification: concurrent handlers, with takeover and resolve from the
\* dashboard at any point
\* ------------------------------------------------------------------------
Init ==
    /\ convs = <<>>
    /\ msgs = <<>>
    /\ clock = 1
    /\ task = [t \in Tasks |-> IdleTask]
    /\ api_calls = {}
    /\ delivered = {}
    /\ calls = <<NoCall, NoCall>>

Next ==
    \/ \E t \in Tasks : Receive(t, InboundBodies)
    \/ \E t \in Tasks : CreateConversation(t)
    \/ \E t \in Tasks : SaveBegin(t)
    \/ \E t \in Tasks : SaveCommit(t)
    \/ \E t \in Tasks : StoreFailure(t)
    \/ \E t \in Tasks : SkipReply(t)
    \/ \E t \in Tasks : HistoryUnloaded(t)
    \/ \E t \in Tasks : StartReply(t)
    \/ \E t \in Tasks : Generate(t, Outcomes)
    \/ \E t \in Tasks : FlagForHuman(t)
    \/ \E t \in Tasks : SendReply(t)
    \/ \E c \in 1..Len(convs) : Takeover(c)
    \/ \E c \in 1..Len(convs) : ResolveConversation(c)

Spec == Init /\ [][Next]_vars

\* ------------------------------------------------------------------------
\* Specification: one handler at a time over a wider range of inbound texts
\* and collaborator outcomes, with the dashboard operations
\* ------------------------------------------------------------------------
ReplyBodies ==
    {TextHi, TextRefund, TextManager, TextHumane, TextAsapPadded, TextSentinel}

ReplyOutcomes ==
    {TextOutcome(RespAnswer), TextOutcome(RespSentinelPadded),
     TextOutcome(RespSentinelInside), TextOutcome(RespLowerSentinel),
     TextOutcome(RespBlank), RaisedOutcome, NoContentOutcome}

\* The store at start: empty, or holding the conversation an earlier first
\* contact of customer 1 with business 1 left behind.
EarlierConversation == NewConversation(1, 1, 0)

ReplyInit ==
    /\ convs \in {<<>>, <<EarlierConversation>>}
    /\ msgs = <<>>
    /\ clock = 1
    /\ task = [t \in Tasks |-> IdleTask]
    /\ api_calls = {}
    /\ delivered = {}
    /\ calls = <<NoCall, NoCall>>

ReplyNext ==
    \/ Receive(1, ReplyBodies)
    \/ CreateConversation(1)
    \/ SaveBegin(1)
    \/ SaveCommit(1)
    \/ StoreFailure(1)
    \/ SkipReply(1)
    \/ HistoryUnloaded(1)
    \/ StartReply(1)
    \/ Generate(1, ReplyOutcomes)
    \/ FlagForHuman(1)
    \/ SendReply(1)
    \/ \E c \in 1..Len(convs) : Takeover(c)
    \/ \E c \in 1..Len(convs) : ResolveConversation(c)

SpecReply == ReplyInit /\ [][ReplyNext]_vars

\* ------------------------------------------------------------------------
\* Specification: a sequential caller of the conversation service, each call
\* running to its return before the next one starts
\* ------------------------------------------------------------------------
\* get_or_create_conversation lines 15-52, uninterrupted.
get_or_create_conversation(table, business_id, customer_number, now) ==
    LET c == SelectConversation(table, business_id, customer_number)
    IN  IF c # 0
        THEN [convs |-> table, conversation |-> c, created |-> FALSE]
        ELSE [convs |-> Append(table, NewConversation(business_id, customer_number, now)),
              conversation |-> Len(table) + 1, created |-> TRUE]

Roles == {"user", "assistant", "human_agent"}

CallGetOrCreate(p) ==
    /\ clock <= MaxClock
    /\ LET r == get_or_create_conversation(convs, p[1], p[2], clock)
       IN  /\ convs' = r.convs
           /\ clock' = IF r.created THEN clock + 1 ELSE clock
           /\ calls' = <<calls[2],
                         [op |-> "get_or_create", business_id |-> p[1],
                          customer_number |-> p[2], conversation |-> r.conversation,
                          created |-> r.created]>>
    /\ UNCHANGED <<msgs, task, api_calls, delivered>>

\* save_message lines 59-103, uninterrupted.  The INSERT of a row whose
\* conversation_id matches no conversation violates the foreign key: the
\* flush raises IntegrityError and nothing is committed.
CallSaveMessage(c, role, content, needs_human) ==
    /\ clock <= MaxClock
    /\ LET m == NewMessage(c, role, content, 0, needs_human, clock)
       IN  IF IntegrityError(m)
           THEN /\ UNCHANGED <<msgs, convs>>
                /\ calls' = <<calls[2], [op |-> "save_message", conversation |-> c,
                                         signal |-> "IntegrityError"]>>
           ELSE /\ msgs' = CommittedMessages(msgs, <<m>>)
                /\ convs' = CommittedConversations(convs, <<m>>)
                /\ calls' = <<calls[2], [op |-> "save_message", conversation |-> c,
                                         signal |-> "none"]>>
    /\ clock' = clock + 1
    /\ UNCHANGED <<task, api_calls, delivered>>

\* flag_for_human lines 129-136: the UPDATE, whatever number of rows it
\* matches, the commit, and the return of None.
CallFlagForHuman(c) ==
    /\ convs' = UpdateConversation(convs, c, flag_values)
    /\ calls' = <<calls[2], [op |-> "flag_for_human", conversation |-> c,
                             signal |-> "none"]>>
    /\ UNCHANGED <<msgs, clock, task, api_calls, delivered>>

\* resolve_conversation lines 375-392: 404 for an id no row has, else the
\* UPDATE and the commit.
CallResolve(c) ==
    /\ IF c \in 1..Len(convs)
       THEN /\ convs' = UpdateConversation(convs, c, resolve_values)
            /\ calls' = <<calls[2], [op |-> "resolve", conversation |-> c,
                                     signal |-> "none"]>>
       ELSE /\ convs' = convs
            /\ calls' = <<calls[2], [op |-> "resolve", conversation |-> c,
                                     signal |-> "404"]>>
    /\ UNCHANGED <<msgs, clock, task, api_calls, delivered>>

\* takeover_conversation lines 360-372: 404 for an id no row has, else
\* flag_for_human.
CallTakeover(c) ==
    /\ IF c \in 1..Len(convs)
       THEN /\ convs' = UpdateConversation(convs, c, flag_values)
            /\ calls' = <<calls[2], [op |-> "takeover", conversation |-> c,
                                     signal |-> "none"]>>
       ELSE /\ convs' = convs
            /\ calls' = <<calls[2], [op |-> "takeover", conversation |-> c,
                                     signal |-> "404"]>>
    /\ UNCHANGED <<msgs, clock, task, api_calls, delivered>>

\* agent_reply lines 328-357: 404 for an id no row has, else save_message
\* with role human_agent and the send.
CallAgentReply(c, body) ==
    /\ clock <= MaxClock
    /\ IF c \in 1..Len(convs)
       THEN LET m == NewMessage(c, "human_agent", body, 0, FALSE, clock)
            IN  /\ msgs' = CommittedMessages(msgs, <<m>>)
                /\ convs' = CommittedConversations(convs, <<m>>)
                /\ clock' = clock + 1
                /\ delivered' = delivered \cup
                        {[to |-> convs[c].customer_number, text |-> body]}
                /\ calls' = <<calls[2], [op |-> "agent_reply", conversation |-> c,
                                         signal |-> "none"]>>
       ELSE /\ UNCHANGED <<msgs, convs, clock, delivered>>
            /\ calls' = <<calls[2], [op |-> "agent_reply", conversation |-> c,
                                     signal |-> "404"]>>
    /\ UNCHANGED <<task, api_calls>>

SeqNext ==
    \/ \E p \in Pairs : CallGetOrCreate(p)
    \/ \E c \in 1..Len(convs), role \in Roles, needs_human \in BOOLEAN :
          CallSaveMessage(c, role, TextHi, needs_human)
    \/ \E c \in 1..Len(convs) : CallFlagForHuman(c)
    \/ \E c \in 1..Len(convs) : CallResolve(c)

SpecSeq == Init /\ [][SeqNext]_vars

\* ------------------------------------------------------------------------
\* Specification: the operations called one after another with any
\* conversation id, those no row has included
\* ------------------------------------------------------------------------
\* The ids a caller passes: those of the rows, and one that no row has.
CallerIds == 1..(Len(convs) + 1)

IdsNext ==
    \/ \E p \in Pairs : CallGetOrCreate(p)
    \/ \E c \in CallerIds, role \in Roles, needs_human \in BOOLEAN :
          CallSaveMessage(c, role, TextHi, needs_human)
    \/ \E c \in CallerIds : CallFlagForHuman(c)
    \/ \E c \in CallerIds : CallResolve(c)
    \/ \E c \in CallerIds : CallTakeover(c)
    \/ \E c \in CallerIds : CallAgentReply(c, AgentText)

SpecIds == Init /\ [][IdsNext]_vars

\* ------------------------------------------------------------------------
\* Specification: webhook requests handled one at a time, the dashboard
\* operations taking place between them; a request may fail at its delivery
\* and may be cancelled at any of its awaits
\* ------------------------------------------------------------------------
\* The collaborator answers, gives up with the sentinel, or fails.
SoloOutcomes ==
    {TextOutcome(RespAnswer), TextOutcome(RespSentinelInside), RaisedOutcome}

SoloNext ==
    \/ Receive(1, InboundBodies)
    \/ CreateConversation(1)
    \/ SaveBegin(1)
    \/ SaveCommit(1)
    \/ StoreFailure(1)
    \/ SkipReply(1)
    \/ HistoryUnloaded(1)
    \/ StartReply(1)
    \/ Generate(1, SoloOutcomes)
    \/ FlagForHuman(1)
    \/ SendReply(1)
    \/ SendFailure(1)
    \/ Cancel(1)
    \/ task[1].pc = "idle" /\ \E c \in 1..Len(convs) : Takeover(c)
    \/ task[1].pc = "idle" /\ \E c \in 1..Len(convs) : ResolveConversation(c)
    \/ task[1].pc = "idle" /\ \E c \in 1..Len(convs) : AgentReply(c, AgentText)

SpecSolo == ReplyInit /\ [][SoloNext]_vars

\* ------------------------------------------------------------------------
\* Specification: webhook requests handled one at a time, carrying text
\* messages and messages of other types
\* ------------------------------------------------------------------------
MediaNext ==
    \/ Receive(1, InboundBodies)
    \/ ReceiveNonText(1, NonTextTypes)
    \/ SendNotice(1)
    \/ IgnoreMessage(1)
    \/ CreateConversation(1)
    \/ SaveBegin(1)
    \/ SaveCommit(1)
    \/ StoreFailure(1)
    \/ SkipReply(1)
    \/ HistoryUnloaded(1)
    \/ StartReply(1)
    \/ Generate(1, Outcomes)
    \/ FlagForHuman(1)
    \/ SendReply(1)

SpecMedia == ReplyInit /\ [][MediaNext]_vars

\* ------------------------------------------------------------------------
\* Specification: the history helper applied to a loaded messages collection
\* ------------------------------------------------------------------------
MaxHistory == 3

\* The text of the i-th message of a collection.
HistoryTexts == <<TextHi, TextRefund, AgentText, TextManager, TextHumane>>

\* The collections the helper is applied to: up to MaxHistory messages of
\* one conversation, of any roles, in any order of their timestamps, equal
\* timestamps included.
HistoryInit ==
    /\ convs = <<EarlierConversation>>
    /\ \E n \in 0..MaxHistory :
          \E roles \in [1..n -> Roles], stamps \in [1..n -> 1..MaxHistory] :
             msgs = [i \in 1..n |->
                       NewMessage(1, roles[i], HistoryTexts[((i - 1) % Len(HistoryTexts)) + 1],
                                  0, FALSE, stamps[i])]
    /\ clock = 1
    /\ task = [t \in Tasks |-> IdleTask]
    /\ api_calls = {}
    /\ delivered = {}
    /\ calls = <<NoCall, NoCall>>

CallHistory(c) ==
    /\ calls' = <<calls[2],
                  [op |-> "history", conversation |-> c,
                   history |-> get_conversation_history_for_claude(LoadedMessages(c))]>>
    /\ UNCHANGED <<convs, msgs, clock, task, api_calls, delivered>>

HistoryNext == \E c \in 1..Len(convs) : CallHistory(c)

SpecHistory == HistoryInit /\ [][HistoryNext]_vars

\* ------------------------------------------------------------------------
\* Properties
\* ------------------------------------------------------------------------
MessagesOf(c) == {i \in 1..Len(msgs) : msgs[i].conversation_id = c}

\* C1: every step that commits a message saved with needs_human=TRUE leaves
\* the parent conversation with status needs_human and ai_handling FALSE,
\* whatever the conversation's status was before the commit.
C1_EscalatingAppendSetsNeedsHuman ==
    [][\A i \in (Len(msgs) + 1)..Len(msgs') :
          msgs'[i].needs_human =>
             /\ convs'[msgs'[i].conversation_id].status = "needs_human"
             /\ convs'[msgs'[i].conversation_id].ai_handling = FALSE]_vars

\* An escalating reply is flushed and about to commit on a conversation that
\* was resolved after the handler fetched it.
C1_Witness ==
    \E t \in Tasks :
       /\ task[t].pc = "commit_reply"
       /\ task[t].pending # <<>>
       /\ task[t].pending[1].needs_human
       /\ convs[task[t].conversation].status = "resolved"

\* C2: in every committed state a conversation shows the parent update of
\* the appends it shows and no other: without messages its last_message_at
\* is the one set at creation; with messages it is the created_at of one of
\* them; and a stored message flagged needs_human never sits in a
\* conversation still open or still AI-handled.  A failed or uncommitted
\* append shows neither the message nor the update.
C2_AppendAtomic ==
    \A c \in 1..Len(convs) :
       /\ MessagesOf(c) = {} => convs[c].last_message_at = convs[c].created_at
       /\ MessagesOf(c) # {} =>
             \E i \in MessagesOf(c) : msgs[i].created_at = convs[c].last_message_at
       /\ \A i \in MessagesOf(c) :
             msgs[i].needs_human =>
                convs[c].status # "open" /\ convs[c].ai_handling = FALSE

\* A committed escalating append is visible together with its update on a
\* conversation that already held the inbound message.
C2_Witness ==
    \E c \in 1..Len(convs) :
       /\ Cardinality(MessagesOf(c)) >= 2
       /\ convs[c].status = "needs_human"
       /\ \E i \in MessagesOf(c) :
             msgs[i].needs_human /\ msgs[i].created_at = convs[c].last_message_at

\* C3 (as claimed): a resolved conversation keeps its status, and the only
\* status changes are open->needs_human, needs_human->resolved, open->resolved.
C3_ResolvedTerminal ==
    [][\A c \in 1..Len(convs) :
          \/ convs'[c].status = convs[c].status
          \/ <<convs[c].status, convs'[c].status>> \in
                {<<"open", "needs_human">>, <<"needs_human", "resolved">>,
                 <<"open", "resolved">>}]_vars

\* C4: a conversation with ai_handling TRUE has status open.
C4_AiHandlingImpliesOpen ==
    \A c \in 1..Len(convs) : convs[c].ai_handling => convs[c].status = "open"

\* A flagged conversation and a resolved one, both with ai_handling FALSE,
\* next to each other.
C4_Witness ==
    \E b, c \in 1..Len(convs) :
       /\ convs[b].status = "needs_human" /\ ~convs[b].ai_handling
       /\ convs[c].status = "resolved" /\ ~convs[c].ai_handling

\* C5 (as claimed): at most one conversation that is not resolved per
\* (business, customer) pair.
C5_OneActivePerPair ==
    \A a, b \in 1..Len(convs) :
       (/\ convs[a].business_id = convs[b].business_id
        /\ convs[a].customer_number = convs[b].customer_number
        /\ convs[a].status # "resolved"
        /\ convs[b].status # "resolved") => a = b

\* C6: two successive get_or_create calls of a sequential caller for the same
\* (business, customer) return the same conversation, and the second creates
\* none.
C6_RepeatedGetOrCreateSameConversation ==
    (/\ calls[1].op = "get_or_create"
     /\ calls[2].op = "get_or_create"
     /\ calls[1].business_id = calls[2].business_id
     /\ calls[1].customer_number = calls[2].customer_number)
    => (calls[2].conversation = calls[1].conversation /\ ~calls[2].created)

\* The first of the two calls created the conversation, the second found it,
\* next to a conversation of another pair.
C6_Witness ==
    /\ calls[1].op = "get_or_create" /\ calls[1].created
    /\ calls[2].op = "get_or_create" /\ ~calls[2].created
    /\ calls[2].conversation = calls[1].conversation
    /\ \E c \in 1..Len(convs) : convs[c].customer_number # calls[1].customer_number

\* C7 (as claimed): the get_or_create that follows a committed resolve(x)
\* for x's pair creates a conversation other than x, open and AI-handled, and
\* leaves x resolved, with its ai_handling and messages as they were.
C7_GetOrCreateAfterResolveCreates ==
    [][(/\ calls[2].op = "resolve"
        /\ calls'[2].op = "get_or_create"
        /\ calls'[2].business_id = convs[calls[2].conversation].business_id
        /\ calls'[2].customer_number = convs[calls[2].conversation].customer_number)
       => (/\ calls'[2].created
           /\ calls'[2].conversation # calls[2].conversation
           /\ convs'[calls'[2].conversation].status = "open"
           /\ convs'[calls'[2].conversation].ai_handling
           /\ convs'[calls[2].conversation] = convs[calls[2].conversation]
           /\ convs'[calls[2].conversation].status = "resolved"
           /\ ~convs'[calls[2].conversation].ai_handling
           /\ \A i \in 1..Len(msgs) : msgs'[i] = msgs[i]
           /\ Len(msgs') = Len(msgs))]_vars

\* C7 (amended): the same, when the committed resolve(x) leaves x's pair
\* without a non-resolved conversation.
C7_GetOrCreateAfterLastResolveCreates ==
    [][(/\ calls[2].op = "resolve"
        /\ calls'[2].op = "get_or_create"
        /\ calls'[2].business_id = convs[calls[2].conversation].business_id
        /\ calls'[2].customer_number = convs[calls[2].conversation].customer_number
        /\ \A c \in 1..Len(convs) :
              (/\ convs[c].business_id = convs[calls[2].conversation].business_id
               /\ convs[c].customer_number = convs[calls[2].conversation].customer_number)
              => convs[c].status = "resolved")
       => (/\ calls'[2].created
           /\ calls'[2].conversation # calls[2].conversation
           /\ convs'[calls'[2].conversation].status = "open"
           /\ convs'[calls'[2].conversation].ai_handling
           /\ convs'[calls[2].conversation] = convs[calls[2].conversation]
           /\ convs'[calls[2].conversation].status = "resolved"
           /\ ~convs'[calls[2].conversation].ai_handling
           /\ \A i \in 1..Len(msgs) : msgs'[i] = msgs[i]
           /\ Len(msgs') = Len(msgs))]_vars

\* A conversation holding a message was resolved and the call after that
\* created the pair's next conversation.
C7_Witness ==
    /\ calls[1].op = "resolve"
    /\ calls[2].op = "get_or_create"
    /\ calls[2].created
    /\ calls[2].conversation # calls[1].conversation
    /\ calls[2].customer_number = convs[calls[1].conversation].customer_number
    /\ calls[2].business_id = convs[calls[1].conversation].business_id
    /\ MessagesOf(calls[1].conversation) # {}

\* The positions of a handler at which generate_reply has returned.
AfterGenerateReply == {"save_reply", "commit_reply", "flag", "send"}

\* text contains a trigger phrase, letter case ignored: stated position by
\* position, without lower() and without the substring test.
HasTrigger(text) ==
    \E k \in 1..Len(ESCALATION_TRIGGERS) :
       \E at \in 1..Len(text) :
          /\ at + Len(ESCALATION_TRIGGERS[k]) - 1 <= Len(text)
          /\ \A j \in 1..Len(ESCALATION_TRIGGERS[k]) :
                \/ text[at + j - 1] = ESCALATION_TRIGGERS[k][j]
                \/ \E n \in 1..Len(UpperLetters) :
                      /\ text[at + j - 1] = UpperLetters[n]
                      /\ ESCALATION_TRIGGERS[k][j] = LowerLetters[n]

\* C8: for a text containing a trigger phrase generate_reply returns the
\* hand-off text with escalate TRUE and no collaborator response was
\* obtained; the collaborator is never called with such a text.
C8_TriggerShortCircuits ==
    /\ \A t \in Tasks :
          (task[t].pc \in AfterGenerateReply /\ HasTrigger(task[t].customer_text))
          => (/\ task[t].reply_text = HANDOFF_MESSAGE
              /\ task[t].human_needed
              /\ task[t].response = NoResponse)
    /\ \A call \in api_calls : ~HasTrigger(call.text)

\* A text with an upper-case trigger was handled to the point of delivery:
\* the hand-off message is stored and the conversation flagged.
C8_Witness ==
    \E t \in Tasks :
       /\ task[t].pc = "send"
       /\ task[t].customer_text = TextRefund
       /\ task[t].reply_text = HANDOFF_MESSAGE
       /\ convs[task[t].conversation].status = "needs_human"

\* C9: when the collaborator's text contains the sentinel, generate_reply
\* returns the hand-off text with escalate TRUE, and no text containing the
\* sentinel is ever stored as an assistant message or handed to delivery.
C9_SentinelEscalates ==
    /\ \A t \in Tasks :
          (/\ task[t].pc \in AfterGenerateReply
           /\ task[t].response.kind = "text"
           /\ Contains(task[t].response.text, SENTINEL))
          => (task[t].reply_text = HANDOFF_MESSAGE /\ task[t].human_needed)
    /\ \A i \in 1..Len(msgs) :
          msgs[i].role = "assistant" => ~Contains(msgs[i].content, SENTINEL)
    /\ \A d \in delivered : ~Contains(d.text, SENTINEL)

\* A response with the sentinel inside a sentence was answered by the stored
\* hand-off message and is at the point of delivery.
C9_Witness ==
    \E t \in Tasks :
       /\ task[t].pc = "send"
       /\ task[t].response = TextOutcome(RespSentinelInside)
       /\ \E i \in 1..Len(msgs) :
             /\ msgs[i].role = "assistant"
             /\ msgs[i].content = HANDOFF_MESSAGE
             /\ msgs[i].conversation_id = task[t].conversation

\* The collaborator call failed: it raised, or its response held no content
\* block to read.
CallFailed(response) == response.kind \in {"raised", "no_content"}

C11_HistoryFiltersAndOrders ==
    (/\ calls[2].op = "history"
     /\ \A i, j \in MessagesOf(calls[2].conversation) :
           msgs[i].created_at = msgs[j].created_at => i = j)
    => LET h == calls[2].history
           kept == {i \in MessagesOf(calls[2].conversation) :
                       msgs[i].role \in {"user", "assistant"}}
       IN  /\ Len(h) = Cardinality(kept)
           /\ \A i \in kept :
                 h[1 + Cardinality({j \in kept : msgs[j].created_at < msgs[i].created_at})]
                    = [role |-> msgs[i].role, content |-> msgs[i].content]
           /\ \A k \in 1..Len(h) : h[k].role # "human_agent"

\* The helper was applied to a user, a human_agent and an assistant message
\* held in descending order of their timestamps.
C11_Witness ==
    /\ calls[2].op = "history"
    /\ Len(msgs) = 3
    /\ msgs[1].role = "assistant" /\ msgs[1].created_at = 3
    /\ msgs[2].role = "human_agent" /\ msgs[2].created_at = 2
    /\ msgs[3].role = "user" /\ msgs[3].created_at = 1
    /\ Len(calls[2].history) = 2
    /\ calls[2].history[1].role = "user"

\* C12: when a handler that fetched an open, AI-handled conversation got
\* escalate=TRUE from generate_reply (keyword or sentinel) and runs to its
\* end, the step that ends it leaves the conversation with status
\* needs_human and ai_handling FALSE, the inbound text stored with role user
\* and the hand-off text stored with role assistant.
C12_EscalationEndToEnd ==
    [][\A t \in Tasks :
          (task[t].pc = "send" /\ task[t].human_needed /\ task'[t].pc = "idle")
          => /\ convs'[task[t].conversation].status = "needs_human"
             /\ ~convs'[task[t].conversation].ai_handling
             /\ \E i \in 1..Len(msgs') :
                   /\ msgs'[i].conversation_id = task[t].conversation
                   /\ msgs'[i].role = "user"
                   /\ msgs'[i].content = task[t].customer_text
                   /\ msgs'[i].whatsapp_message_id = task[t].msg_id
             /\ \E j \in 1..Len(msgs') :
                   /\ msgs'[j].conversation_id = task[t].conversation
                   /\ msgs'[j].role = "assistant"
                   /\ msgs'[j].content = HANDOFF_MESSAGE]_vars

\* A handler has ended after the sentinel escalated a text without trigger:
\* the conversation is flagged and holds both messages, the hand-off is out.
C12_Witness ==
    /\ task[1].pc = "idle"
    /\ \E c \in 1..Len(convs) :
          /\ convs[c].status = "needs_human"
          /\ \E i, j \in MessagesOf(c) :
                /\ msgs[i].role = "user" /\ msgs[i].content = TextHi
                /\ msgs[j].role = "assistant" /\ msgs[j].content = HANDOFF_MESSAGE
          /\ [to |-> convs[c].customer_number, text |-> HANDOFF_MESSAGE] \in delivered

\* C13: an agent reply on an existing conversation appends exactly one
\* message, of role human_agent, and leaves status and ai_handling as they
\* were; and no step of any operation turns a conversation's ai_handling
\* from FALSE to TRUE.
C13_AgentReplyKeepsAiOff ==
    [][/\ \A c \in 1..Len(convs) :
             AgentReply(c, AgentText)
             => /\ Len(msgs') = Len(msgs) + 1
                /\ \A i \in 1..Len(msgs) : msgs'[i] = msgs[i]
                /\ msgs'[Len(msgs')].role = "human_agent"
                /\ msgs'[Len(msgs')].conversation_id = c
                /\ msgs'[Len(msgs')].content = AgentText
                /\ convs'[c].ai_handling = convs[c].ai_handling
                /\ convs'[c].status = convs[c].status
       /\ \A c \in 1..Len(convs) : ~convs[c].ai_handling => ~convs'[c].ai_handling]_vars

\* An agent has replied on an escalated conversation and a later inbound
\* message of the customer was stored in it, the AI still off.
C13_Witness ==
    \E c \in 1..Len(convs) :
       /\ ~convs[c].ai_handling
       /\ convs[c].status = "needs_human"
       /\ \E i, j \in MessagesOf(c) :
             /\ msgs[i].role = "human_agent"
             /\ msgs[j].role = "user"
             /\ i < j

\* C14 (as claimed): a handler that has stored an inbound text message in
\* the active conversation it found answers it, whatever ai_enabled and the
\* conversation's status and ai_handling were: it does not return from
\* there unless a reply for that customer is handed to the outbound channel.
C14_EveryInboundTextAnswered ==
    [][\A t \in Tasks :
          (/\ task[t].pc = "reply"
           /\ task[t].loaded
           /\ task'[t].pc = "idle")
          => \E d \in delivered' : d.to = task[t].from_number /\ d.text # <<>>]_vars

\* C15 (as claimed): an operation called with a conversation id that no row
\* has signals the failure to its caller and leaves both tables as they were.
C15_UnknownIdSignalled ==
    [][(/\ calls' # calls
        /\ calls'[2].op \in {"save_message", "flag_for_human", "takeover",
                             "resolve", "agent_reply"}
        /\ calls'[2].conversation \notin 1..Len(convs))
       => (calls'[2].signal # "none" /\ convs' = convs /\ msgs' = msgs)]_vars

\* C16 (as claimed): while the collaborator call or the outbound delivery of
\* a handler is in progress, the handler's session has no transaction open.
C16_NoTransactionAcrossExternalCall ==
    \A t \in Tasks : task[t].pc \in {"generate", "send"} => ~task[t].in_tx

\* C17: a committed inbound message stays stored, unchanged, through every
\* later step: the failure of the collaborator call, of the delivery or of
\* the save of the reply, and the cancellation of the request.
C17_InboundMessageDurable ==
    [][\A i \in 1..Len(msgs) :
          msgs[i].role = "user" => (i <= Len(msgs') /\ msgs'[i] = msgs[i])]_vars

\* A request ended after the collaborator was called for its conversation
\* and without a stored reply; its inbound message is in the store.
C17_Witness ==
    /\ task[1].pc = "idle"
    /\ \E i \in 1..Len(msgs) :
          /\ msgs[i].role = "user"
          /\ \E call \in api_calls :
                /\ call.conversation = msgs[i].conversation_id
                /\ call.text = msgs[i].content
          /\ \A j \in MessagesOf(msgs[i].conversation_id) : msgs[j].role = "user"

\* C18: no two stored messages carry the same channel message id, however
\* often and however concurrently the channel delivers a message.
C18_ExternalIdsUnique ==
    \A i, j \in 1..Len(msgs) :
       (/\ msgs[i].whatsapp_message_id # 0
        /\ msgs[i].whatsapp_message_id = msgs[j].whatsapp_message_id)
       => i = j

\* A message is stored, and two handlers are at the point of saving a second
\* and a third delivery of it.
C18_Witness ==
    \E i \in 1..Len(msgs) :
       /\ msgs[i].whatsapp_message_id # 0
       /\ \A t \in Tasks :
             /\ task[t].pc = "save_user"
             /\ task[t].msg_id = msgs[i].whatsapp_message_id

\* C19 (as claimed): once needs_human is the committed status of a
\* conversation, no step appends a message of role assistant to it and no
\* step calls the collaborator for it.
C19_NoAutomationAfterNeedsHuman ==
    [][\A c \in 1..Len(convs) :
          convs[c].status = "needs_human"
          => /\ \A i \in (Len(msgs) + 1)..Len(msgs') :
                   ~(msgs'[i].conversation_id = c /\ msgs'[i].role = "assistant")
             /\ \A call \in api_calls' \ api_calls : call.conversation # c]_vars

\* C20 (as claimed): in every committed state a conversation that has
\* messages has last_message_at equal to the greatest created_at among them.
C20_LastMessageAtIsLatest ==
    \A c \in 1..Len(convs) :
       MessagesOf(c) # {}
       => /\ \A i \in MessagesOf(c) : msgs[i].created_at <= convs[c].last_message_at
          /\ \E i \in MessagesOf(c) : msgs[i].created_at = convs[c].last_message_at

\* C21 (as claimed): a handler that received a message whose channel id is
\* already stored changes nothing: until the save of that message fails, no
\* step of it creates a conversation, inserts a message, changes a
\* conversation, calls the collaborator or delivers anything.
C21_RedeliveryIsNoOp ==
    [][\A t \in Tasks :
          (/\ task[t].pc \in {"create_conversation", "save_user"}
           /\ \E i \in 1..Len(msgs) : msgs[i].whatsapp_message_id = task[t].msg_id
           /\ task'[t] # task[t])
          => /\ convs' = convs
             /\ msgs' = msgs
             /\ api_calls' = api_calls
             /\ delivered' = delivered
             /\ task'[t].pc \in {"idle", "save_user"}]_vars

C23_NoRetry ==
    [][\A t \in Tasks :
          /\ task'[t].generations <= 1
          /\ (task'[t].pc \in {"reply", "generate"} /\ task'[t] # task[t])
             => task[t].pc \in {"commit_user", "reply"}
          /\ (task[t].pc \in {"commit_reply", "flag"} /\ task'[t] # task[t])
             => task'[t].pc \in {"flag", "send", "idle"}
          /\ (task[t].pc = "send" /\ task'[t] # task[t])
             => /\ task'[t].pc = "idle"
                /\ Cardinality(delivered' \ delivered) <= 1]_vars

\* The collaborator call of a request failed, the apology was stored, and
\* the request is at its delivery having called the collaborator once.
C23_Witness ==
    /\ task[1].pc = "send"
    /\ task[1].response = RaisedOutcome
    /\ task[1].generations = 1
    /\ task[1].reply_text = APOLOGY_MESSAGE

\* C24: a get_or_create call never returns a conversation that is resolved
\* when the call runs, and when the pair has one or several conversations
\* that are not resolved it returns the one of them created last and creates
\* none.
C24_GetOrCreateReturnsLatestActive ==
    [][\A p \in Pairs :
          CallGetOrCreate(p)
          => LET active == {i \in 1..Len(convs) :
                               /\ convs[i].business_id = p[1]
                               /\ convs[i].customer_number = p[2]
                               /\ convs[i].status # "resolved"}
                 c == calls'[2].conversation
             IN  /\ c \in 1..Len(convs')
                 /\ convs'[c].status # "resolved"
                 /\ c \in 1..Len(convs) => convs[c].status # "resolved"
                 /\ active # {}
                    => /\ c \in active
                       /\ \A j \in active : convs[j].created_at <= convs[c].created_at
                       /\ ~calls'[2].created
                       /\ convs' = convs]_vars

\* A get_or_create call has returned the later-created of two conversations
\* of its pair that are both not resolved, and created none.
C24_Witness ==
    /\ calls[2].op = "get_or_create"
    /\ ~calls[2].created
    /\ \E j \in 1..Len(convs) :
          /\ j # calls[2].conversation
          /\ convs[j].business_id = calls[2].business_id
          /\ convs[j].customer_number = calls[2].customer_number
          /\ convs[j].status # "resolved"
          /\ convs[calls[2].conversation].status # "resolved"
          /\ convs[j].created_at < convs[calls[2].conversation].created_at

\* C25: resolve applied to a conversation right after resolve was applied to
\* it changes no row: the conversation stays resolved with ai_handling FALSE,
\* its last_message_at and the messages are as the first call left them; and
\* likewise flag_for_human applied right after flag_for_human leaves the
\* conversation needs_human with ai_handling FALSE and changes nothing.
C25_ResolveAndFlagIdempotent ==
    [][\A c \in 1..Len(convs) :
          /\ (/\ calls[2].op = "resolve"
              /\ calls[2].conversation = c
              /\ CallResolve(c))
             => /\ convs' = convs
                /\ msgs' = msgs
                /\ convs'[c].status = "resolved"
                /\ ~convs'[c].ai_handling
          /\ (/\ calls[2].op = "flag_for_human"
              /\ calls[2].conversation = c
              /\ CallFlagForHuman(c))
             => /\ convs' = convs
                /\ msgs' = msgs
                /\ convs'[c].status = "needs_human"
                /\ ~convs'[c].ai_handling]_vars

\* The same call was applied twice in succession to a conversation that
\* holds a message: resolve, or flag_for_human.
C25_Witness ==
    /\ calls[1] = calls[2]
    /\ calls[2].op \in {"resolve", "flag_for_human"}
    /\ calls[2].conversation \in 1..Len(convs)
    /\ MessagesOf(calls[2].conversation) # {}
    /\ convs[calls[2].conversation].status =
          IF calls[2].op = "resolve" THEN "resolved" ELSE "needs_human"

\* C26: messages are immutable and never deleted.  Every step of the inbound
\* handler (its failures and its cancellation included) and of takeover,
\* resolve and the agent reply leaves every stored message in place with its
\* role, content, needs_human flag, channel id, creation timestamp and
\* conversation unchanged, so the messages of a conversation only grow.
C26_MessagesImmutable ==
    [][\A i \in 1..Len(msgs) : i <= Len(msgs') /\ msgs'[i] = msgs[i]]_vars

\* One conversation holds a user message, a flagged assistant message and an
\* agent's message, and has been resolved.
C26_Witness ==
    \E c \in 1..Len(convs) :
       /\ convs[c].status = "resolved"
       /\ \E i, j, k \in MessagesOf(c) :
             /\ msgs[i].role = "user"
             /\ msgs[j].role = "assistant" /\ msgs[j].needs_human
             /\ msgs[k].role = "human_agent"

\* C27: save_message with needs_human FALSE, for each of the three roles,
\* adds exactly one message, with that role and content, to the conversation
\* it names, sets that conversation's last_message_at to the message's
\* timestamp and changes nothing else: status, ai_handling and every other
\* field of the conversation, every other conversation and every earlier
\* message are as before.
C27_UnflaggedAppendFrame ==
    [][\A c \in 1..Len(convs), role \in Roles :
          CallSaveMessage(c, role, TextHi, FALSE)
          => /\ Len(msgs') = Len(msgs) + 1
             /\ SubSeq(msgs', 1, Len(msgs)) = msgs
             /\ msgs'[Len(msgs')].conversation_id = c
             /\ msgs'[Len(msgs')].role = role
             /\ msgs'[Len(msgs')].content = TextHi
             /\ ~msgs'[Len(msgs')].needs_human
             /\ convs' = [convs EXCEPT ![c] =
                            [@ EXCEPT !.last_message_at = msgs'[Len(msgs')].created_at]]]_vars

\* An unflagged message of an agent was appended to a conversation that is
\* needs_human with ai_handling FALSE, next to another conversation.
C27_Witness ==
    /\ calls[2].op = "save_message"
    /\ calls[2].signal = "none"
    /\ Len(convs) >= 2
    /\ msgs # <<>>
    /\ msgs[Len(msgs)].conversation_id = calls[2].conversation
    /\ msgs[Len(msgs)].role = "human_agent"
    /\ ~msgs[Len(msgs)].needs_human
    /\ convs[calls[2].conversation].status = "needs_human"
    /\ ~convs[calls[2].conversation].ai_handling
    /\ convs[calls[2].conversation].last_message_at = msgs[Len(msgs)].created_at

\* The stored user and assistant messages of the conversation of request t
\* other than the inbound message of t itself, in the order of the store.
StoredTurnsBefore(t) ==
    SelectSeq(msgs, LAMBDA m : /\ m.conversation_id = task[t].conversation
                               /\ m.role \in {"user", "assistant"}
                               /\ m.whatsapp_message_id # task[t].msg_id)

\* C28: the payload of the collaborator call of a request, the requests being
\* handled one at a time.  Its last turn is the inbound text with role user;
\* the turns before it are the user and assistant messages stored in the
\* conversation before the request, in the order of their timestamps; the
\* inbound message, although stored by then, is not among them, so it appears
\* once; and no turn has the role human_agent.
C28_PayloadEndsWithInboundOnce ==
    [][\A t \in Tasks :
          (task[t].pc = "generate" /\ task'[t].pc = "save_reply")
          => \E call \in api_calls' :
                LET prior == StoredTurnsBefore(t)
                    payload == PayloadOf(t)
                    n == Len(payload)
                IN  /\ call.conversation = task[t].conversation
                    /\ call.text = task[t].customer_text
                    /\ \E i \in MessagesOf(task[t].conversation) :
                          /\ msgs[i].whatsapp_message_id = task[t].msg_id
                          /\ msgs[i].content = task[t].customer_text
                    /\ n = Len(prior) + 1
                    /\ payload[n] = [role |-> "user", content |-> task[t].customer_text]
                    /\ \A k \in 1..Len(prior) :
                          payload[k] = [role |-> prior[k].role,
                                              content |-> prior[k].content]
                    /\ \A k, l \in 1..Len(prior) :
                          k < l => prior[k].created_at <= prior[l].created_at
                    /\ \A k \in 1..n : payload[k].role # "human_agent"]_vars

\* A request has just called the collaborator for a conversation that held
\* an earlier user message and an agent's message: the payload has two turns.
C28_Witness ==
    /\ task[1].pc = "save_reply"
    /\ task[1].generations = 1
    /\ \E i \in MessagesOf(task[1].conversation) : msgs[i].role = "human_agent"
    /\ \E call \in api_calls :
          /\ call.conversation = task[1].conversation
          /\ call.text = task[1].customer_text
    /\ Len(PayloadOf(1)) = 2
    /\ PayloadOf(1)[1].role = "user"

\* C29: a request whose conversation has ai_handling FALSE, or whose business
\* has ai_enabled FALSE, stores its inbound message with role user and does
\* nothing else.  From the fetch of the conversation on, no step of the
\* request calls the collaborator or hands anything to the channel; the only
\* message it adds is the inbound one; no conversation changes in status or
\* ai_handling; and the request ends after the save.
C29_AiOffStoresInboundOnly ==
    [][\A t \in Tasks :
          (/\ task[t].pc \in {"save_user", "commit_user", "reply"}
           /\ \/ ~ai_enabled[task[t].business]
              \/ ~convs[task[t].conversation].ai_handling
           /\ task'[t] # task[t])
          => /\ api_calls' = api_calls
             /\ delivered' = delivered
             /\ task'[t].pc \in {"commit_user", "reply", "idle"}
             /\ Len(convs') = Len(convs)
             /\ \A c \in 1..Len(convs) :
                   /\ convs'[c].status = convs[c].status
                   /\ convs'[c].ai_handling = convs[c].ai_handling
             /\ SubSeq(msgs', 1, Len(msgs)) = msgs
             /\ \A i \in (Len(msgs) + 1)..Len(msgs') :
                   /\ msgs'[i].role = "user"
                   /\ msgs'[i].content = task[t].customer_text
                   /\ msgs'[i].whatsapp_message_id = task[t].msg_id
                   /\ msgs'[i].conversation_id = task[t].conversation]_vars

\* A request for a conversation an agent has taken over has stored its
\* inbound message and stands at the test of the two flags.
C29_Witness ==
    /\ task[1].pc = "reply"
    /\ ai_enabled[task[1].business]
    /\ convs[task[1].conversation].status = "needs_human"
    /\ ~convs[task[1].conversation].ai_handling
    /\ \E i \in MessagesOf(task[1].conversation) :
          /\ msgs[i].role = "user"
          /\ msgs[i].whatsapp_message_id = task[1].msg_id

\* The stored messages that carry the channel id of request t.
StoredCopies(t) == {i \in 1..Len(msgs) : msgs[i].whatsapp_message_id = task[t].msg_id}

\* C30: whatever the interleaving of concurrent requests, those of one
\* (business, customer) pair included.  (a) A request that has got past the
\* save of its inbound message has exactly one stored copy of it, a user
\* message with its text in the request's conversation; a request about to
\* save finds at most one stored copy, the one a refused duplicate leaves.
\* (b) The conversation a request works on exists and is of the request's
\* business and customer, so the message is not attached to another
\* customer's conversation.  (c) Every stored message names exactly one
\* existing conversation.  (d) Every conversation has one of the three
\* statuses.
C30_SafeDegradation ==
    /\ \A t \in Tasks :
          /\ task[t].pc \in {"reply", "generate", "save_reply", "commit_reply",
                             "flag", "send"}
             => /\ Cardinality(StoredCopies(t)) = 1
                /\ \A i \in StoredCopies(t) :
                      /\ msgs[i].role = "user"
                      /\ msgs[i].content = task[t].customer_text
                      /\ msgs[i].conversation_id = task[t].conversation
          /\ task[t].pc \in {"create_conversation", "save_user", "commit_user"}
             => Cardinality(StoredCopies(t)) <= 1
          /\ task[t].conversation # 0
             => /\ task[t].conversation \in 1..Len(convs)
                /\ convs[task[t].conversation].business_id = task[t].business
                /\ convs[task[t].conversation].customer_number = task[t].from_number
    /\ \A i \in 1..Len(msgs) : msgs[i].conversation_id \in 1..Len(convs)
    /\ \A c \in 1..Len(convs) :
          convs[c].status \in {"open", "needs_human", "resolved"}

\* The first-contact race has happened: two requests of one business and
\* customer each created a conversation and both conversations are open; one
\* request has stored its message in the conversation it created, the other
\* is about to save its own message into the other conversation.
C30_Witness ==
    \E t, u \in Tasks :
       /\ task[t].pc = "reply" /\ task[u].pc = "save_user"
       /\ task[t].business = task[u].business
       /\ task[t].from_number = task[u].from_number
       /\ task[t].msg_id # task[u].msg_id
       /\ task[t].conversation # task[u].conversation
       /\ ~task[t].loaded /\ ~task[u].loaded
       /\ convs[task[t].conversation].status = "open"
       /\ convs[task[u].conversation].status = "open"
       /\ \E i \in MessagesOf(task[t].conversation) :
             msgs[i].whatsapp_message_id = task[t].msg_id

\* C31 (as claimed): a request carrying a message whose type is not text
\* ends by handing the fixed notice to the channel for its sender, and
\* nothing else: the step that ends it calls no collaborator, creates no
\* conversation and stores no message.
C31_NonTextGetsNotice ==
    [][\A t \in Tasks :
          (/\ task[t].pc = "dispatch"
           /\ task[t].msg_type # "text"
           /\ task'[t].pc = "idle")
          => /\ delivered' = delivered \cup
                   {[to |-> task[t].from_number, text |-> FALLBACK_MEDIA_MESSAGE]}
             /\ api_calls' = api_calls
             /\ convs' = convs
             /\ msgs' = msgs]_vars

====
